---- MODULE Spec2Model ----
(***************************************************************************)
(* Model of backend/demo.py: the streaming transaction generator.          *)
(* The script connects to the destination (retry loop), creates the        *)
(* keyspace, drops and re-creates seven tables, prepares three inserts,    *)
(* loads the source file with reservoir sampling, and then streams events, *)
(* writing each one to seven tables in a fixed order.                      *)
(***************************************************************************)
EXTENDS Integers, Sequences, FiniteSets, TLC

(* ------------------------------ bounds --------------------------------- *)
MaxRetry == 2
MaxRows == 3
MaxCapacity == 2
MaxBlank == 1
MaxEvents == 2
MaxReruns == 2
MaxDropFails == 1

(* ------------------------- program constants --------------------------- *)
RETRY_DELAY == 5
NUM_TABLES == 7
TicksPerHour == 2
NoExit == 0 - 1
NoSummary == 0 - 1
POLL_INTERVAL == 1
NoTxn == 0 - 1

DEMO_USER_ID == "User_1"

(* the `tables` list, in the order the script drops the tables *)
tables == << "transactions_by_user", "transactions_by_category",
             "spending_by_category", "spending_by_user_category",
             "hourly_transactions", "merchant_statistics",
             "payment_method_stats" >>

(* the CREATE TABLE statements, in the order the script issues them *)
CreateOrder == << "transactions_by_user", "transactions_by_category",
                  "spending_by_category", "spending_by_user_category",
                  "hourly_transactions", "merchant_statistics",
                  "payment_method_stats" >>

(* a stream loop that updates the four counters before the three logs *)
WriteOrderCountersFirst ==
    << "spending_by_category", "spending_by_user_category",
       "merchant_statistics", "payment_method_stats",
       "transactions_by_user", "transactions_by_category",
       "hourly_transactions" >>

(* the seven writes of one event, in the order the stream loop issues them *)
WriteOrder == << "transactions_by_user", "transactions_by_category",
                 "hourly_transactions", "spending_by_category",
                 "spending_by_user_category", "merchant_statistics",
                 "payment_method_stats" >>

LogTables == { "transactions_by_user", "transactions_by_category",
               "hourly_transactions" }
CounterTables == { "spending_by_category", "spending_by_user_category",
                   "merchant_statistics", "payment_method_stats" }
AllTables == LogTables \cup CounterTables

(* ----------------------------- source rows ----------------------------- *)
(* A csv row: amount is the decimal string of the file, held as its number *)
(* of hundredths ("0.29" is 29); merchant is a string, held as characters. *)
fraud_ == << "f", "r", "a", "u", "d", "_" >>

Categories == << "grocery_pos", "gas_transport" >>
Merchants == << fraud_ \o << "A", "c" >>, << "S", "h" >>, << "A", "c" >> >>
Payments == << "card", "cash" >>
Amounts == << 1000, 2000, 29 >>

(* line i (1-based, after the header) of the csv file: four fields *)
FileRow(i) ==
    [ amount |-> Amounts[((i - 1) % 3) + 1] + 100 * ((i - 1) \div 3),
      category |-> Categories[((i - 1) % 2) + 1],
      merchant |-> Merchants[((i - 1) % 3) + 1],
      payment_method |-> Payments[((i - 1) % 2) + 1] ]

(* the records csv.DictReader yields for a file of n data rows *)
FileRecords(n) == [ i \in 1..n |-> FileRow(i) ]

(* ---------------------------- pure helpers ----------------------------- *)
Range(seq) == { seq[n] : n \in 1..Len(seq) }

(* merchant[6:] if merchant.startswith("fraud_") else merchant *)
clean_merchant(merchant) ==
    IF Len(merchant) >= 6 /\ SubSeq(merchant, 1, 6) = fraud_
    THEN SubSeq(merchant, 7, Len(merchant))
    ELSE merchant

(* dt.strftime('%Y-%m-%d-%H'): the timestamp truncated to its hour *)
get_hour_bucket(dt) == dt \div TicksPerHour

RECURSIVE Pow2Mod(_, _)
Pow2Mod(k, m) == IF k = 0 THEN 1 % m ELSE (2 * Pow2Mod(k - 1, m)) % m

RECURSIVE Pow2(_)
Pow2(k) == IF k = 0 THEN 1 ELSE 2 * Pow2(k - 1)

(* floor(log2(c)) for c >= 1 *)
RECURSIVE Log2Floor(_)
Log2Floor(c) == IF c < 2 THEN 0 ELSE 1 + Log2Floor(c \div 2)

(* floor(log2(c/100)) for c >= 1: the binary exponent of float(c/100) *)
RECURSIVE Log2FloorHundredths(_)
Log2FloorHundredths(c) ==
    IF c >= 100 THEN Log2Floor(c \div 100)
    ELSE Log2FloorHundredths(2 * c) - 1

(* int(float(s) * 100) for the decimal string s = c/100, c >= 0, in IEEE   *)
(* binary64.  float(s) = m / 2^k with k = 52 - q and m the integer nearest *)
(* to c*2^k/100, so 100*m = c*2^k + r with r in -50..50 determined by      *)
(* c*2^k mod 100.  The exact product is c + r/2^k = c + (r/D) ulp(c), with *)
(* D = 2^(p-q); it rounds below c exactly when it lies more than half a    *)
(* spacing below c (the spacing halves just below a power of two), and     *)
(* int() then truncates to c - 1.                                          *)
ToCents(c) ==
    IF c = 0 THEN 0
    ELSE LET q == Log2FloorHundredths(c)
             p == Log2Floor(c)
             rem == (c * Pow2Mod(52 - q, 100)) % 100
             r == IF rem <= 50 THEN 0 - rem ELSE 100 - rem
             D == Pow2(p - q)
             down == IF c = Pow2(p) THEN 4 * (0 - r) > D
                     ELSE 2 * (0 - r) > D
         IN IF down THEN c - 1 ELSE c

(* ------------------------------ tables --------------------------------- *)
(* PRIMARY KEY of each log table: rows with equal keys are one row *)
PrimaryKey(table, row) ==
    CASE table = "transactions_by_user" ->
           << row.user_id, row.transaction_time >>
      [] table = "transactions_by_category" ->
           << row.user_id, row.category, row.transaction_time >>
      [] table = "hourly_transactions" ->
           << row.hour_bucket, row.transaction_time, row.transaction_id >>

(* INSERT INTO a log table: a row with the same primary key is replaced *)
Insert(rows, table, row) ==
    { r \in rows : PrimaryKey(table, r) # PrimaryKey(table, row) } \cup { row }

(* UPDATE ... SET total_amount = total_amount + %s,                        *)
(*                transaction_count = transaction_count + 1 WHERE key      *)
CounterAdd(rows, key, cents) ==
    IF key \in DOMAIN rows
    THEN [ rows EXCEPT ![key] =
             [ total_amount |-> @.total_amount + cents,
               transaction_count |-> @.transaction_count + 1 ] ]
    ELSE [ k \in DOMAIN rows \cup { key } |->
             IF k = key
             THEN [ total_amount |-> cents, transaction_count |-> 1 ]
             ELSE rows[k] ]

(* the row each log table receives for an event *)
LogRow(table, ev) ==
    CASE table = "transactions_by_user" ->
           [ user_id |-> DEMO_USER_ID, transaction_time |-> ev.txn_time,
             transaction_id |-> ev.txn_id, amount |-> ev.amount,
             category |-> ev.category, merchant |-> ev.merchant,
             payment_method |-> ev.payment_method ]
      [] table = "transactions_by_category" ->
           [ user_id |-> DEMO_USER_ID, category |-> ev.category,
             transaction_time |-> ev.txn_time, transaction_id |-> ev.txn_id,
             amount |-> ev.amount, merchant |-> ev.merchant ]
      [] table = "hourly_transactions" ->
           [ hour_bucket |-> ev.hour_bucket, transaction_time |-> ev.txn_time,
             transaction_id |-> ev.txn_id, user_id |-> DEMO_USER_ID,
             amount |-> ev.amount, category |-> ev.category ]

(* the WHERE key of each counter table for an event *)
CounterKey(table, ev) ==
    CASE table = "spending_by_category" -> ev.category
      [] table = "spending_by_user_category" -> << DEMO_USER_ID, ev.category >>
      [] table = "merchant_statistics" -> ev.merchant
      [] table = "payment_method_stats" -> ev.payment_method

(* what a previous run of the script left in the keyspace *)
StaleEvent ==
    [ txn_id |-> 0, txn_time |-> 0, amount |-> 500, category |-> "grocery_pos",
      merchant |-> << "A", "c" >>, payment_method |-> "card",
      hour_bucket |-> get_hour_bucket(0) ]
StaleLogs == [ t \in LogTables |-> { LogRow(t, StaleEvent) } ]
StaleCounters ==
    [ t \in CounterTables |->
        CounterAdd(<< >>, CounterKey(t, StaleEvent), ToCents(StaleEvent.amount)) ]
EmptyLogs == [ t \in LogTables |-> {} ]
EmptyCounters == [ t \in CounterTables |-> << >> ]

(* ------------------------------- state --------------------------------- *)
VARIABLES
    pc,                 \* the statement the script is at
    session,            \* "none", "open" (cluster.connect() returned), "closed"
    retry_count,        \* failed connection attempts
    last_sleep,         \* seconds of the latest time.sleep in the retry loop
    exists,             \* the tables of the keyspace
    logs,               \* rows of each log table
    counters,           \* rows of each counter table
    table_i,            \* position in the drop loop / the CREATE sequence
    capacity,           \* MAX_ROWS_IN_MEMORY
    source,             \* the records of the csv file
    total_rows,         \* line count of the file minus the header
    i,                  \* records consumed by the sampling loop
    all_transactions,   \* the working set
    transaction_count,  \* events whose seven writes all returned
    events,             \* the events synthesized so far, in order
    w,                  \* writes of the latest event that returned
    applied,            \* statements of the stream loop the destination carried out, per table
    now,                \* wall clock, in timestamp ticks
    start_time,         \* the clock reading taken before the stream loop
    attempted,          \* session.execute calls issued per table in the stream loop
    written,            \* session.execute calls per table that returned
    interrupted,        \* a KeyboardInterrupt was delivered
    exit_code,          \* process exit status, NoExit while running
    error,              \* the exception that ended the process, "" if none
    summary_writes,     \* "Total Writes" of the summary, NoSummary if not printed
    (* dashboard.py, the polling consumer *)
    dash_pc,            \* the statement the dashboard script is at
    dash_cache,         \* st.cache_resource of get_session: the connected host
    dash_host,          \* position in get_session's loop over hosts
    dash_q,             \* the query of the refresh cycle that comes next
    last_txn_id,        \* st.session_state.last_txn_id
    txn_count,          \* st.session_state.txn_count
    dash_error,         \* st.error was shown in this refresh cycle
    dash_sleep,         \* seconds of the latest time.sleep of the dashboard
    reruns,             \* st.rerun() calls so far
    reachable,          \* the hosts on which the destination answers
    (* the generator running beside the dashboard, as far as its tables show *)
    gen_pc,             \* "Dropping", "Creating", "Streaming" or "Ended"
    gen_i,              \* position in its drop loop, CREATEs or fan-out
    gen_events          \* the events it has synthesized so far

vars == << pc, session, retry_count, last_sleep, exists, logs, counters,
           table_i, capacity, source, total_rows, i, all_transactions,
           transaction_count, events, w, now, attempted, applied, written,
           interrupted, exit_code, error, summary_writes,
           dash_pc, dash_cache, dash_host, dash_q, last_txn_id, txn_count,
           dash_error, dash_sleep, reruns, reachable, start_time,
           gen_pc, gen_i, gen_events >>

dbVars == << exists, logs, counters >>
dashVars == << dash_pc, dash_cache, dash_host, dash_q, last_txn_id,
              txn_count, dash_error, dash_sleep, reruns, reachable >>
genVars == << gen_pc, gen_i, gen_events >>
(* the generator's variables other than the wall clock *)
demoState == << pc, session, retry_count, last_sleep, table_i, capacity,
               source, total_rows, i, all_transactions, transaction_count,
               events, w, start_time, attempted, applied, written,
               interrupted, exit_code, error, summary_writes >>
demoVars == << demoState, now >>
loadVars == << source, total_rows, i, all_transactions >>
streamVars == << transaction_count, events, w, now, start_time, attempted,
                applied, written >>
exitVars == << exit_code, error, summary_writes >>

StartupPcs == { "Connecting", "RetrySleep", "Keyspace", "Dropping", "Creating", "Preparing",
                "CheckFile", "Loading", "Ready" }
StreamPcs == { "Synth", "Write", "Sent", "Applied", "Count" }
HandlerPcs == { "Handler", "Shutdown" }
FinalPcs == { "Stopped", "Crashed", "Exited" }

(* the states of the stream driver *)
Phase ==
    CASE pc \in { "Connecting", "RetrySleep" } -> "Connecting"
      [] pc \in { "Keyspace", "Dropping", "Creating", "Preparing",
                  "CheckFile" } -> "Provisioned"
      [] pc \in { "Loading", "Ready" } -> "Loading"
      [] pc \in StreamPcs -> "Streaming"
      [] pc \in HandlerPcs \cup { "Stopped" } -> "Stopped"
      [] OTHER -> "Dead"

Init ==
    /\ pc = "Connecting"
    /\ session = "none"
    /\ retry_count = 0
    /\ last_sleep = 0
    /\ \/ exists = {} /\ logs = EmptyLogs /\ counters = EmptyCounters
       \/ exists = AllTables /\ logs = StaleLogs /\ counters = StaleCounters
    /\ table_i = 1
    /\ capacity \in 1..MaxCapacity
    /\ source = << >>
    /\ total_rows = 0
    /\ i = 0
    /\ all_transactions = << >>
    /\ transaction_count = 0
    /\ events = << >>
    /\ w = 0
    /\ now = 1
    /\ start_time = 0
    /\ attempted = [ t \in AllTables |-> 0 ]
    /\ applied = [ t \in AllTables |-> 0 ]
    /\ written = [ t \in AllTables |-> 0 ]
    /\ interrupted = FALSE
    /\ exit_code = NoExit
    /\ error = ""
    /\ summary_writes = NoSummary
    /\ dash_pc = "Top"
    /\ dash_cache = "unset"
    /\ dash_host = 1
    /\ dash_q = 1
    /\ last_txn_id = NoTxn
    /\ txn_count = 0
    /\ dash_error = FALSE
    /\ dash_sleep = 0
    /\ reruns = 0
    /\ reachable = {}
    /\ gen_pc = "Dropping"
    /\ gen_i = 1
    /\ gen_events = << >>

(* an exception no handler catches: traceback, the process ends *)
Uncaught(name, status) ==
    /\ pc' = "Crashed"
    /\ error' = name
    /\ exit_code' = status
    /\ UNCHANGED summary_writes

(* ----------------------------- connecting ------------------------------ *)
(* the sleep between two attempts: time.sleep(5) *)
RetryDelay(attempt) == RETRY_DELAY

(* cluster.connect() raises: `except Exception`, retry_count += 1 *)
ConnectFails ==
    /\ pc = "Connecting"
    /\ retry_count < MaxRetry
    /\ retry_count' = retry_count + 1
    /\ pc' = "RetrySleep"
    /\ UNCHANGED << session, last_sleep, dbVars, table_i, capacity, loadVars,
                    streamVars, interrupted, exitVars >>
    /\ UNCHANGED << dashVars, genVars >>

(* the attempt is reported, time.sleep(5) returns, and the loop tries again *)
RetrySleep ==
    /\ pc = "RetrySleep"
    /\ last_sleep' = RetryDelay(retry_count)
    /\ pc' = "Connecting"
    /\ UNCHANGED << session, retry_count, dbVars, table_i, capacity, loadVars,
                    streamVars, interrupted, exitVars >>
    /\ UNCHANGED << dashVars, genVars >>

(* cluster.connect() returns: break *)
ConnectOK ==
    /\ pc = "Connecting"
    /\ session' = "open"
    /\ pc' = "Keyspace"
    /\ UNCHANGED << retry_count, last_sleep, dbVars, table_i, capacity,
                    loadVars, streamVars, interrupted, exitVars >>
    /\ UNCHANGED << dashVars, genVars >>

(* ---------------------------- provisioning ----------------------------- *)
(* CREATE KEYSPACE IF NOT EXISTS, set_keyspace *)
CreateKeyspace ==
    /\ pc = "Keyspace"
    /\ pc' = "Dropping"
    /\ table_i' = 1
    /\ UNCHANGED << session, retry_count, last_sleep, dbVars, capacity,
                    loadVars, streamVars, interrupted, exitVars >>
    /\ UNCHANGED << dashVars, genVars >>

(* the drop loop moves to the next table, or on to the CREATE statements *)
NextDrop ==
    /\ table_i' = IF table_i = NUM_TABLES THEN 1 ELSE table_i + 1
    /\ pc' = IF table_i = NUM_TABLES THEN "Creating" ELSE "Dropping"

Dropped(t) ==
    /\ exists' = exists \ { t }
    /\ logs' = IF t \in LogTables THEN [ logs EXCEPT ![t] = {} ] ELSE logs
    /\ counters' = IF t \in CounterTables
                   THEN [ counters EXCEPT ![t] = << >> ] ELSE counters

(* DROP TABLE IF EXISTS table *)
DropTable ==
    /\ pc = "Dropping"
    /\ Dropped(tables[table_i])
    /\ NextDrop
    /\ UNCHANGED << session, retry_count, last_sleep, capacity, loadVars,
                    streamVars, interrupted, exitVars >>
    /\ UNCHANGED << dashVars, genVars >>

(* the DROP raises: `except: pass` *)
DropFails ==
    /\ pc = "Dropping"
    /\ NextDrop
    /\ UNCHANGED << session, retry_count, last_sleep, dbVars, capacity,
                    loadVars, streamVars, interrupted, exitVars >>
    /\ UNCHANGED << dashVars, genVars >>

(* a CREATE TABLE IF NOT EXISTS: a table the drop left is kept as it is *)
CreateTableIfNotExists ==
    /\ pc = "Creating"
    /\ exists' = exists \cup { CreateOrder[table_i] }
    /\ UNCHANGED << logs, counters >>
    /\ table_i' = IF table_i = NUM_TABLES THEN 1 ELSE table_i + 1
    /\ pc' = IF table_i = NUM_TABLES THEN "Preparing" ELSE "Creating"
    /\ UNCHANGED << session, retry_count, last_sleep, capacity, loadVars,
                    streamVars, interrupted, exitVars >>
    /\ UNCHANGED << dashVars, genVars >>

(* CREATE TABLE (without IF NOT EXISTS): raises if the drop left the table *)
CreateTable ==
    /\ pc = "Creating"
    /\ LET t == CreateOrder[table_i] IN
         IF t \in exists
         THEN /\ Uncaught("AlreadyExists", 1)
              /\ UNCHANGED << dbVars, table_i >>
         ELSE /\ exists' = exists \cup { t }
              /\ UNCHANGED << logs, counters >>
              /\ table_i' = IF table_i = NUM_TABLES THEN 1 ELSE table_i + 1
              /\ pc' = IF table_i = NUM_TABLES THEN "Preparing" ELSE "Creating"
              /\ UNCHANGED exitVars
    /\ UNCHANGED << session, retry_count, last_sleep, capacity, loadVars,
                    streamVars, interrupted >>
    /\ UNCHANGED << dashVars, genVars >>

(* the three session.prepare calls *)
Prepare ==
    /\ pc = "Preparing"
    /\ pc' = "CheckFile"
    /\ UNCHANGED << session, retry_count, last_sleep, dbVars, table_i,
                    capacity, loadVars, streamVars, interrupted, exitVars >>
    /\ UNCHANGED << dashVars, genVars >>

(* a session.execute / session.prepare outside any try raises; a CREATE    *)
(* TABLE whose answer did not arrive was, or was not, carried out          *)
ExecuteFails ==
    /\ pc \in { "Keyspace", "Creating", "Preparing" }
    /\ Uncaught("DriverError", 1)
    /\ \/ UNCHANGED dbVars
       \/ /\ pc = "Creating"
          /\ CreateOrder[table_i] \notin exists
          /\ exists' = exists \cup { CreateOrder[table_i] }
          /\ UNCHANGED << logs, counters >>
    /\ UNCHANGED << session, retry_count, last_sleep, table_i, capacity,
                    loadVars, streamVars, interrupted >>
    /\ UNCHANGED << dashVars, genVars >>

(* ------------------------------- loading ------------------------------- *)
(* if not os.path.exists(FILE_PATH): print, exit(1) *)
FileMissing ==
    /\ pc = "CheckFile"
    /\ pc' = "Exited"
    /\ exit_code' = 1
    /\ error' = "File not found"
    /\ UNCHANGED << session, retry_count, last_sleep, dbVars, table_i,
                    capacity, loadVars, streamVars, interrupted,
                    summary_writes >>
    /\ UNCHANGED << dashVars, genVars >>

(* the line counts a file of n records can have: one line per record plus  *)
(* blank lines, or no line at all (not even the header) when n = 0         *)
LineCounts(n) ==
    { n + b : b \in 0..MaxBlank } \cup (IF n = 0 THEN { 0 - 1 } ELSE {})

(* the file exists: count its lines, open the reader *)
CountRows ==
    /\ pc = "CheckFile"
    /\ \E n \in 0..MaxRows :
         /\ source' = FileRecords(n)
         /\ total_rows' \in LineCounts(n)
    /\ all_transactions' = << >>
    /\ i' = 0
    /\ pc' = "Loading"
    /\ UNCHANGED << session, retry_count, last_sleep, dbVars, table_i,
                    capacity, streamVars, interrupted, exitVars >>
    /\ UNCHANGED << dashVars, genVars >>

(* a sampling loop whose fill test is off by one: the record at position   *)
(* cap - 1 takes the replacement branch                                    *)
ReservoirStepShortFill(ws, cap, idx, row, j) ==
    IF idx + 1 < cap THEN Append(ws, row)
    ELSE IF j < cap THEN [ ws EXCEPT ![j + 1] = row ]
    ELSE ws

(* a sampling loop that keeps, instead of discarding, the records whose    *)
(* draw falls outside the reservoir                                        *)
ReservoirStepKeepAll(ws, cap, idx, row, j) ==
    IF idx < cap THEN Append(ws, row)
    ELSE IF j < cap THEN [ ws EXCEPT ![j + 1] = row ]
    ELSE Append(ws, row)

(* one pass of the sampling loop, for record number idx (0-based) and the  *)
(* draw j = random.randint(0, idx)                                         *)
ReservoirStep(ws, cap, idx, row, j) ==
    IF idx < cap THEN Append(ws, row)
    ELSE IF j < cap THEN [ ws EXCEPT ![j + 1] = row ]
    ELSE ws

(* total_rows > MAX_ROWS_IN_MEMORY: the next record of the reader *)
SampleRow ==
    /\ pc = "Loading"
    /\ total_rows > capacity
    /\ i < Len(source)
    /\ \E j \in 0..i :
         all_transactions' =
             ReservoirStep(all_transactions, capacity, i, source[i + 1], j)
    /\ i' = i + 1
    /\ UNCHANGED << pc, session, retry_count, last_sleep, dbVars, table_i,
                    capacity, source, total_rows, streamVars, interrupted,
                    exitVars >>
    /\ UNCHANGED << dashVars, genVars >>

(* total_rows > MAX_ROWS_IN_MEMORY: the reader is exhausted *)
SampleDone ==
    /\ pc = "Loading"
    /\ total_rows > capacity
    /\ i = Len(source)
    /\ pc' = "Ready"
    /\ UNCHANGED << session, retry_count, last_sleep, dbVars, table_i,
                    capacity, loadVars, streamVars, interrupted, exitVars >>
    /\ UNCHANGED << dashVars, genVars >>

(* else: all_transactions = list(reader) *)
LoadAll ==
    /\ pc = "Loading"
    /\ ~ (total_rows > capacity)
    /\ all_transactions' = source
    /\ pc' = "Ready"
    /\ UNCHANGED << session, retry_count, last_sleep, dbVars, table_i,
                    capacity, source, total_rows, i, streamVars, interrupted,
                    exitVars >>
    /\ UNCHANGED << dashVars, genVars >>

(* ------------------------------ streaming ------------------------------ *)
(* transaction_count = 0; start_time = time.time(); try: while True: *)
StartStream ==
    /\ pc = "Ready"
    /\ transaction_count' = 0
    /\ start_time' = now
    /\ pc' = "Synth"
    /\ UNCHANGED << session, retry_count, last_sleep, dbVars, table_i,
                    capacity, loadVars, events, w, now, attempted, applied,
                    written, interrupted, exitVars >>
    /\ UNCHANGED << dashVars, genVars >>

(* the event built from a row of the working set: datetime.now(),          *)
(* uuid.uuid4(), float(row['amount']), clean_merchant, get_hour_bucket     *)
MakeEvent(row, txn_time, txn_id) ==
    [ txn_id |-> txn_id, txn_time |-> txn_time, amount |-> row.amount,
      category |-> row.category, merchant |-> clean_merchant(row.merchant),
      payment_method |-> row.payment_method,
      hour_bucket |-> get_hour_bucket(txn_time) ]

(* row = random.choice(all_transactions) and the event's fields; the clock *)
(* has moved on by a tick since the previous event, or has not             *)
Synthesize ==
    /\ pc = "Synth"
    /\ Len(events) < MaxEvents
    /\ all_transactions # << >>
    /\ \E k \in 1..Len(all_transactions), tick \in 0..1 :
         /\ now' = now + tick
         /\ events' = Append(events,
                MakeEvent(all_transactions[k], now + tick, Len(events) + 1))
    /\ w' = 0
    /\ pc' = "Write"
    /\ UNCHANGED << session, retry_count, last_sleep, dbVars, table_i,
                    capacity, loadVars, start_time, transaction_count, attempted,
                    applied, written, interrupted, exitVars >>
    /\ UNCHANGED << dashVars, genVars >>

(* random.choice of an empty list raises IndexError *)
SynthEmpty ==
    /\ pc = "Synth"
    /\ all_transactions = << >>
    /\ Uncaught("IndexError", 1)
    /\ UNCHANGED << session, retry_count, last_sleep, dbVars, table_i,
                    capacity, loadVars, streamVars, interrupted >>
    /\ UNCHANGED << dashVars, genVars >>

(* the effect of the write to table t for event ev *)
ApplyWrite(t, ev) ==
    IF t \in LogTables
    THEN /\ logs' = [ logs EXCEPT ![t] = Insert(@, t, LogRow(t, ev)) ]
         /\ UNCHANGED counters
    ELSE /\ counters' = [ counters EXCEPT ![t] =
                CounterAdd(@, CounterKey(t, ev), ToCents(ev.amount)) ]
         /\ UNCHANGED logs

(* session.execute of the next write of the fan-out is called: the         *)
(* statement is on its way to the destination, the call blocks             *)
IssueWrite ==
    /\ pc = "Write"
    /\ attempted' = [ attempted EXCEPT ![WriteOrder[w + 1]] = @ + 1 ]
    /\ pc' = "Sent"
    /\ UNCHANGED << session, retry_count, last_sleep, dbVars, table_i,
                    capacity, loadVars, start_time, transaction_count, events, w, now,
                    applied, written, interrupted, exitVars >>
    /\ UNCHANGED << dashVars, genVars >>

(* the destination carries out the statement of the call in flight *)
ServerApplies ==
    /\ pc = "Sent"
    /\ LET t == WriteOrder[w + 1] IN
         /\ applied' = [ applied EXCEPT ![t] = @ + 1 ]
         /\ ApplyWrite(t, events[Len(events)])
    /\ pc' = "Applied"
    /\ UNCHANGED << session, retry_count, last_sleep, exists, table_i,
                    capacity, loadVars, start_time, transaction_count, events, w, now,
                    attempted, written, interrupted, exitVars >>
    /\ UNCHANGED << dashVars, genVars >>

(* the session.execute in flight returns *)
WriteOK ==
    /\ pc = "Applied"
    /\ written' = [ written EXCEPT ![WriteOrder[w + 1]] = @ + 1 ]
    /\ w' = w + 1
    /\ pc' = IF w + 1 = NUM_TABLES THEN "Count" ELSE "Write"
    /\ UNCHANGED << session, retry_count, last_sleep, dbVars, table_i,
                    capacity, loadVars, start_time, transaction_count, events, now,
                    attempted, applied, interrupted, exitVars >>
    /\ UNCHANGED << dashVars, genVars >>

(* the session.execute in flight raises (the destination did not answer,   *)
(* or its answer did not arrive in time): the try has no handler but       *)
(* `except KeyboardInterrupt`                                              *)
WriteFails ==
    /\ pc \in { "Sent", "Applied" }
    /\ Uncaught("DriverError", 1)
    /\ UNCHANGED << session, retry_count, last_sleep, dbVars, table_i,
                    capacity, loadVars, streamVars, interrupted >>
    /\ UNCHANGED << dashVars, genVars >>

(* transaction_count += 1, the output line, time.sleep(STREAM_DELAY) *)
CountEvent ==
    /\ pc = "Count"
    /\ transaction_count' = transaction_count + 1
    /\ pc' = "Synth"
    /\ UNCHANGED << session, retry_count, last_sleep, dbVars, table_i,
                    capacity, loadVars, start_time, events, w, now, attempted, applied,
                    written, interrupted, exitVars >>
    /\ UNCHANGED << dashVars, genVars >>

(* ------------------------------ interrupts ----------------------------- *)
(* KeyboardInterrupt outside the stream loop's try: `except Exception` of  *)
(* the retry loop does not catch it, nothing else does; a CREATE TABLE     *)
(* that was in flight was, or was not, carried out                         *)
InterruptStartup ==
    /\ pc \in StartupPcs
    /\ interrupted' = TRUE
    /\ Uncaught("KeyboardInterrupt", 130)
    /\ \/ UNCHANGED dbVars
       \/ /\ pc = "Creating"
          /\ CreateOrder[table_i] \notin exists
          /\ exists' = exists \cup { CreateOrder[table_i] }
          /\ UNCHANGED << logs, counters >>
    /\ UNCHANGED << session, retry_count, last_sleep, table_i, capacity,
                    loadVars, streamVars >>
    /\ UNCHANGED << dashVars, genVars >>

(* KeyboardInterrupt inside a DROP: the bare `except: pass` swallows it;   *)
(* the statement was, or was not, carried out                              *)
InterruptDrop ==
    /\ pc = "Dropping"
    /\ interrupted' = TRUE
    /\ \/ Dropped(tables[table_i])
       \/ UNCHANGED dbVars
    /\ NextDrop
    /\ UNCHANGED << session, retry_count, last_sleep, capacity, loadVars,
                    streamVars, exitVars >>
    /\ UNCHANGED << dashVars, genVars >>

(* KeyboardInterrupt inside the stream loop's try, between two statements  *)
(* or inside a session.execute in flight (whose statement the destination  *)
(* has, or has not, carried out): `except KeyboardInterrupt:` is entered   *)
(* and the clock is read for `elapsed`                                     *)
InterruptStream ==
    /\ pc \in StreamPcs
    /\ interrupted' = TRUE
    /\ \E tick \in 0..1 : now' = now + tick
    /\ pc' = "Handler"
    /\ UNCHANGED << session, retry_count, last_sleep, dbVars, table_i,
                    capacity, loadVars, transaction_count, events, w,
                    start_time, attempted, applied, written, exitVars >>
    /\ UNCHANGED << dashVars, genVars >>

(* a summary that counts the events started, not the events whose seven    *)
(* writes returned                                                         *)
PrintSummaryCountsStarted ==
    /\ pc = "Handler"
    /\ IF now - start_time = 0
       THEN Uncaught("ZeroDivisionError", 1)
       ELSE /\ summary_writes' = Len(events) * 7
            /\ pc' = "Shutdown"
            /\ UNCHANGED << exit_code, error >>
    /\ UNCHANGED << session, retry_count, last_sleep, dbVars, table_i,
                    capacity, loadVars, streamVars, interrupted >>
    /\ UNCHANGED << dashVars, genVars >>

(* the handler's prints: the summary f-string divides by elapsed, then     *)
(* shows "Total Writes"                                                    *)
PrintSummary ==
    /\ pc = "Handler"
    /\ IF now - start_time = 0
       THEN Uncaught("ZeroDivisionError", 1)
       ELSE /\ summary_writes' = transaction_count * 7
            /\ pc' = "Shutdown"
            /\ UNCHANGED << exit_code, error >>
    /\ UNCHANGED << session, retry_count, last_sleep, dbVars, table_i,
                    capacity, loadVars, streamVars, interrupted >>
    /\ UNCHANGED << dashVars, genVars >>

(* cluster.shutdown() returns and the script ends *)
Shutdown ==
    /\ pc = "Shutdown"
    /\ session' = "closed"
    /\ pc' = "Stopped"
    /\ exit_code' = 0
    /\ UNCHANGED << retry_count, last_sleep, dbVars, table_i, capacity,
                    loadVars, streamVars, interrupted, error,
                    summary_writes >>
    /\ UNCHANGED << dashVars, genVars >>

(* a further KeyboardInterrupt inside the handler, before the summary or   *)
(* inside cluster.shutdown(): nothing catches it; the shutdown it cut      *)
(* short had, or had not, closed the connection                            *)
InterruptHandler ==
    /\ pc \in HandlerPcs
    /\ Uncaught("KeyboardInterrupt", 130)
    /\ \/ UNCHANGED session
       \/ pc = "Shutdown" /\ session' = "closed"
    /\ UNCHANGED << retry_count, last_sleep, dbVars, table_i, capacity,
                    loadVars, streamVars, interrupted >>
    /\ UNCHANGED << dashVars, genVars >>

(* ------------------------- dashboard.py -------------------------------- *)
(* hosts of get_session, in the order they are tried *)
hosts == << "cassandra", "127.0.0.1", "localhost" >>

(* a get_session without st.cache_resource: it connects on every rerun *)
DashGetSessionUncached ==
    /\ dash_pc = "Top"
    /\ dash_cache' = "unset"
    /\ dash_pc' = "Connect"
    /\ dash_host' = 1
    /\ dash_q' = 1
    /\ UNCHANGED << demoVars, genVars, dbVars, last_txn_id, txn_count, dash_error,
                    dash_sleep, reruns, reachable >>

(* the script runs from the top: get_session(), whose result is cached     *)
(* after its first call (a first call enters the loop over hosts), then    *)
(* `if session is None: ... st.stop()`, else on to the refresh loop        *)
DashGetSession ==
    /\ dash_pc = "Top"
    /\ IF dash_cache = "unset"
       THEN /\ dash_pc' = "Connect"
            /\ dash_host' = 1
       ELSE /\ dash_pc' = IF dash_cache = "none" THEN "Halted" ELSE "Query"
            /\ UNCHANGED dash_host
    /\ dash_q' = 1
    /\ UNCHANGED << demoVars, genVars, dbVars, dash_cache, last_txn_id, txn_count,
                    dash_error, dash_sleep, reruns, reachable >>

(* Cluster([host]).connect() and set_keyspace succeed on the host being    *)
(* tried: return cluster, session, host (cached), on to the refresh loop   *)
DashConnectOK ==
    /\ dash_pc = "Connect"
    /\ hosts[dash_host] \in reachable
    /\ dash_cache' = hosts[dash_host]
    /\ dash_pc' = "Query"
    /\ UNCHANGED << demoVars, genVars, dbVars, dash_host, dash_q, last_txn_id,
                    txn_count, dash_error, dash_sleep, reruns, reachable >>

(* the attempt on the host being tried raises: `except: continue`; after   *)
(* the last host, return None, None, None (cached), st.error, st.stop()    *)
DashConnectFails ==
    /\ dash_pc = "Connect"
    /\ hosts[dash_host] \notin reachable
    /\ IF dash_host = Len(hosts)
       THEN /\ dash_cache' = "none"
            /\ dash_pc' = "Halted"
            /\ UNCHANGED dash_host
       ELSE /\ dash_host' = dash_host + 1
            /\ UNCHANGED << dash_cache, dash_pc >>
    /\ UNCHANGED << demoVars, genVars, dbVars, dash_q, last_txn_id, txn_count,
                    dash_error, dash_sleep, reruns, reachable >>

(* the table each of the five queries of a refresh cycle reads *)
QueryTable(q) ==
    CASE q = 1 -> "transactions_by_user"
      [] q = 2 -> "spending_by_category"
      [] q = 3 -> "payment_method_stats"
      [] q = 4 -> "merchant_statistics"
      [] q = 5 -> "hourly_transactions"

(* the rows query 1 (WHERE user_id='User_1') and query 5 (WHERE            *)
(* hour_bucket = the current hour) return; queries 2-4 read whole tables   *)
QueryRows(q) ==
    CASE q = 1 -> { r \in logs["transactions_by_user"] :
                      r.user_id = DEMO_USER_ID }
      [] q = 5 -> { r \in logs["hourly_transactions"] :
                      r.hour_bucket = get_hour_bucket(now) }
      [] OTHER -> {}

(* `if not df.empty` *)
QueryEmpty(q) ==
    IF q \in { 1, 5 } THEN QueryRows(q) = {}
    ELSE DOMAIN counters[QueryTable(q)] = {}

(* df['transaction_id'].iloc[0]: clustering order is transaction_time DESC *)
LatestId(rows) ==
    (CHOOSE r \in rows :
        \A o \in rows : o.transaction_time <= r.transaction_time).transaction_id

(* a query of the refresh cycle returns; its rows, if any, are rendered    *)
DashQueryOK ==
    /\ dash_pc = "Query"
    /\ dash_cache \in reachable
    /\ QueryTable(dash_q) \in exists
    /\ IF dash_q = 1 /\ ~ QueryEmpty(1)
          /\ last_txn_id # LatestId(QueryRows(1))
       THEN /\ txn_count' = txn_count + 1
            /\ last_txn_id' = LatestId(QueryRows(1))
       ELSE UNCHANGED << txn_count, last_txn_id >>
    /\ dash_q' = IF dash_q = 5 THEN 1 ELSE dash_q + 1
    /\ dash_pc' = IF dash_q = 5 THEN "Sleep" ELSE "Query"
    /\ UNCHANGED << demoVars, genVars, dbVars, dash_cache, dash_host, dash_error,
                    dash_sleep, reruns, reachable >>

(* a query raises (host unreachable, table missing, timeout):              *)
(* `except Exception as e: st.error(...)`, the rest of the try is skipped  *)
DashQueryFails ==
    /\ dash_pc = "Query"
    /\ dash_error' = TRUE
    /\ dash_q' = 1
    /\ dash_pc' = "Sleep"
    /\ UNCHANGED << demoVars, genVars, dbVars, dash_cache, dash_host, last_txn_id,
                    txn_count, dash_sleep, reruns, reachable >>

(* time.sleep(1); st.rerun(): the script starts again from the top *)
DashRerun ==
    /\ dash_pc = "Sleep"
    /\ reruns < MaxReruns
    /\ dash_sleep' = POLL_INTERVAL
    /\ reruns' = reruns + 1
    /\ dash_error' = FALSE
    /\ dash_pc' = "Top"
    /\ UNCHANGED << demoVars, genVars, dbVars, dash_cache, dash_host, dash_q,
                    last_txn_id, txn_count, reachable >>

(* the environment of the dashboard: the destination becomes reachable or  *)
(* unreachable on some hosts                                               *)
ReachabilityChanges ==
    /\ reachable' \in SUBSET Range(hosts)
    /\ reachable' # reachable
    /\ UNCHANGED << demoVars, genVars, dbVars, dash_pc, dash_cache, dash_host,
                    dash_q, last_txn_id, txn_count, dash_error, dash_sleep,
                    reruns >>

(* Beside the dashboard runs the generator.  Of its run the dashboard can  *)
(* see the tables and nothing else, so the run is followed statement by    *)
(* statement on the tables: the drop loop, the CREATEs, and the writes of  *)
(* its events, in the generator's order.  A generator that ends (an        *)
(* exception, an interrupt) takes no further step.                         *)

(* the stale tables the drop loop has left behind: DROPs that raised *)
DropsFailed == { tables[n] : n \in 1..(gen_i - 1) } \cap exists

(* the drop loop of the generator moves on *)
GeneratorNextDrop ==
    /\ gen_i' = IF gen_i = NUM_TABLES THEN 1 ELSE gen_i + 1
    /\ gen_pc' = IF gen_i = NUM_TABLES THEN "Creating" ELSE "Dropping"
    /\ UNCHANGED gen_events

(* the generator's next DROP TABLE IF EXISTS is carried out *)
GeneratorDrops ==
    /\ gen_pc = "Dropping"
    /\ Dropped(tables[gen_i])
    /\ GeneratorNextDrop
    /\ UNCHANGED << demoVars, dashVars >>

(* the generator's next DROP raises or is interrupted before the           *)
(* destination acted: `except: pass`, the table stays                      *)
GeneratorDropFails ==
    /\ gen_pc = "Dropping"
    /\ tables[gen_i] \in exists
    /\ Cardinality(DropsFailed) < MaxDropFails
    /\ GeneratorNextDrop
    /\ UNCHANGED << dbVars, demoVars, dashVars >>

(* the generator's next CREATE TABLE: it raises AlreadyExists, and the     *)
(* generator ends, if the drop loop left the table                         *)
GeneratorCreates ==
    /\ gen_pc = "Creating"
    /\ LET t == CreateOrder[gen_i] IN
         IF t \in exists
         THEN /\ gen_pc' = "Ended"
              /\ UNCHANGED << exists, gen_i >>
         ELSE /\ exists' = exists \cup { t }
              /\ gen_i' = IF gen_i = NUM_TABLES THEN 1 ELSE gen_i + 1
              /\ gen_pc' = IF gen_i = NUM_TABLES THEN "Streaming"
                            ELSE "Creating"
    /\ UNCHANGED << logs, counters, gen_events, demoVars, dashVars >>

(* the generator synthesizes its next event, from any record of the file   *)
(* (with MaxEvents <= MaxCapacity every choice of records is a draw from   *)
(* some working set), and the first write of the event is carried out      *)
GeneratorSynthesizes ==
    /\ gen_pc = "Streaming"
    /\ gen_i = 1
    /\ Len(gen_events) < MaxEvents
    /\ \E k \in 1..MaxRows, tick \in 0..1 :
         LET ev == MakeEvent(FileRow(k), now + tick, Len(gen_events) + 1) IN
         /\ now' = now + tick
         /\ gen_events' = Append(gen_events, ev)
         /\ ApplyWrite(WriteOrder[1], ev)
    /\ gen_i' = 2
    /\ UNCHANGED << exists, gen_pc, demoState, dashVars >>

(* the next write of the generator's latest event is carried out *)
GeneratorWrites ==
    /\ gen_pc = "Streaming"
    /\ gen_i > 1
    /\ ApplyWrite(WriteOrder[gen_i], gen_events[Len(gen_events)])
    /\ gen_i' = IF gen_i = NUM_TABLES THEN 1 ELSE gen_i + 1
    /\ UNCHANGED << exists, gen_pc, gen_events, demoVars, dashVars >>

DashStep ==
    \/ DashGetSession
    \/ DashConnectOK
    \/ DashConnectFails
    \/ DashQueryOK
    \/ DashQueryFails
    \/ DashRerun

DashNext ==
    \/ DashGetSession
    \/ DashConnectOK
    \/ DashConnectFails
    \/ DashQueryOK
    \/ DashQueryFails
    \/ DashRerun
    \/ ReachabilityChanges
    \/ GeneratorDrops
    \/ GeneratorDropFails
    \/ GeneratorCreates
    \/ GeneratorSynthesizes
    \/ GeneratorWrites

(* the dashboard starts beside a generator whose MAX_ROWS_IN_MEMORY is     *)
(* MaxCapacity                                                             *)
DashInit == Init /\ capacity = MaxCapacity

(* the dashboard script runs whenever it can: one thread, no blocking call *)
(* other than the queries and the sleep                                    *)
DashSpec == DashInit /\ [][DashNext]_vars /\ WF_vars(DashStep)

(* ---------------------------- specification ---------------------------- *)
Next ==
    \/ ConnectFails
    \/ RetrySleep
    \/ ConnectOK
    \/ CreateKeyspace
    \/ DropTable
    \/ DropFails
    \/ CreateTable
    \/ Prepare
    \/ ExecuteFails
    \/ FileMissing
    \/ CountRows
    \/ SampleRow
    \/ SampleDone
    \/ LoadAll
    \/ StartStream
    \/ Synthesize
    \/ SynthEmpty
    \/ IssueWrite
    \/ ServerApplies
    \/ WriteOK
    \/ WriteFails
    \/ CountEvent
    \/ InterruptStartup
    \/ InterruptDrop
    \/ InterruptStream
    \/ PrintSummary
    \/ Shutdown
    \/ InterruptHandler

Spec == Init /\ [][Next]_vars

(* ============================== claims ================================= *)
Loaded == pc \in { "Ready", "Stopped" } \cup StreamPcs \cup HandlerPcs

(* every event synthesized so far has had its seven writes return *)
FanOutsDone == pc \in { "Synth", "Count" }

RECURSIVE SumAmounts(_)
SumAmounts(S) ==
    IF S = {} THEN 0
    ELSE LET n == CHOOSE x \in S : TRUE
         IN events[n].amount + SumAmounts(S \ { n })

(* the events, by position, that carry `key` in the dimension of table t *)
EventsWithKey(t, key) ==
    { n \in 1..Len(events) : CounterKey(t, events[n]) = key }

EventKeys(t) == { CounterKey(t, events[n]) : n \in 1..Len(events) }

(* C1: when a write of an event's fan-out has failed, every one of the     *)
(* seven destinations has nevertheless been attempted for every event      *)
(* whose fan-out started.                                                  *)
C1_AllDestinationsAttempted ==
    (error = "DriverError" /\ events # << >>)
        => \A t \in AllTables : attempted[t] = Len(events)

(* C2: a failing write does not end the stream loop: once events are being *)
(* emitted, the driver is in Streaming unless an interrupt was delivered.  *)
C2_ErrorKeepsStreaming ==
    (events # << >> /\ ~ interrupted) => Phase = "Streaming"

(* C3: after the fan-out of K events every counter table holds, for every  *)
(* key, the number of events carrying the key and the exact sum of their   *)
(* amounts in hundredths.                                                  *)
C3_CountersMatchEvents ==
    FanOutsDone =>
        \A t \in CounterTables :
            /\ DOMAIN counters[t] = EventKeys(t)
            /\ \A key \in EventKeys(t) :
                 /\ counters[t][key].transaction_count =
                        Cardinality(EventsWithKey(t, key))
                 /\ counters[t][key].total_amount =
                        SumAmounts(EventsWithKey(t, key))

(* C4: after the fan-out of K events every log table holds K rows with K   *)
(* distinct transaction identifiers.                                       *)
C4_LogRowsComplete ==
    FanOutsDone =>
        \A t \in LogTables :
            /\ Cardinality(logs[t]) = Len(events)
            /\ Cardinality({ r.transaction_id : r \in logs[t] }) = Len(events)

(* C5: the driver leaves Connecting only through a successful connect,     *)
(* which enters Provisioned: every other step taken in Connecting stays in *)
(* Connecting with the process running; a failed attempt is counted and    *)
(* followed by the sleep, after which the connection is tried again; every *)
(* sleep between attempts lasts the same RETRY_DELAY seconds.              *)
C5_RetryUntilConnected ==
    /\ [][ Phase = "Connecting"
             => \/ /\ Phase' = "Connecting"
                   /\ session' = "none"
                   /\ exit_code' = NoExit
                \/ session' = "open" /\ Phase' = "Provisioned" ]_vars
    /\ [][ retry_count' # retry_count
             => /\ retry_count' = retry_count + 1
                /\ pc' = "RetrySleep" ]_vars
    /\ [][ last_sleep' # last_sleep
             => /\ pc = "RetrySleep"
                /\ pc' = "Connecting"
                /\ last_sleep' = RETRY_DELAY ]_vars
    /\ [](last_sleep \in { 0, RETRY_DELAY })

(* C6: once an interrupt has been delivered the driver is Stopped, has     *)
(* printed a summary whose write count is 7 x the events emitted, and has  *)
(* released the connection.                                                *)
C6_InterruptStops ==
    interrupted =>
        /\ pc = "Stopped"
        /\ summary_writes = NUM_TABLES * transaction_count
        /\ session = "closed"

(* C7: after the load, a source of N <= capacity records is the working    *)
(* set: same records, same order, same length.                             *)
C7_SmallSourceKeptWhole ==
    (Loaded /\ Len(source) <= capacity) => all_transactions = source

C7_Witness ==
    /\ pc = "Ready"
    /\ Len(source) = capacity
    /\ total_rows > capacity
    /\ Len(source) >= 2
    /\ all_transactions = source

(* C8: the working set never holds more than capacity records, holds only  *)
(* records of the source, and after the load of a source of N > capacity   *)
(* records holds exactly capacity records.                                 *)
C8_WorkingSetBounded ==
    /\ Len(all_transactions) <= capacity
    /\ Range(all_transactions) \subseteq Range(source)
    /\ (Loaded /\ Len(source) > capacity)
           => Len(all_transactions) = capacity

C8_Witness ==
    /\ pc = "Ready"
    /\ Len(source) > capacity
    /\ Len(all_transactions) = capacity
    /\ all_transactions # SubSeq(source, 1, capacity)

(* C9: the driver is never in Streaming with an empty working set, and the *)
(* synthesizer is never called on one.                                     *)
C9_EmptySourceNeverStreams ==
    /\ Phase = "Streaming" => all_transactions # << >>
    /\ error # "IndexError"

(* the keyspace is as it was when the script started *)
KeyspaceUntouched ==
    \/ exists = {} /\ logs = EmptyLogs /\ counters = EmptyCounters
    \/ exists = AllTables /\ logs = StaleLogs /\ counters = StaleCounters

(* C10: when the process has ended on the missing source file, its status  *)
(* is non-zero, it has not waited on or opened a connection, no table has  *)
(* changed and no event was emitted.                                       *)
C10_MissingFileExitsAtOnce ==
    pc = "Exited" =>
        /\ exit_code # 0
        /\ session = "none"
        /\ KeyspaceUntouched
        /\ events = << >>

(* C11: in Streaming no step lowers a counter value of any key, and no     *)
(* step changes or removes a row that a log table already holds.           *)
C11_MonotoneAndAppendOnly ==
    [][ Phase = "Streaming" =>
          /\ \A t \in CounterTables : \A key \in DOMAIN counters[t] :
               /\ key \in DOMAIN counters'[t]
               /\ counters'[t][key].total_amount >=
                      counters[t][key].total_amount
               /\ counters'[t][key].transaction_count >=
                      counters[t][key].transaction_count
          /\ \A t \in LogTables : logs[t] \subseteq logs'[t] ]_vars

(* C12: for every event each destination is attempted at most once, in     *)
(* the order of the fan-out; when the event cycle is over, because the     *)
(* seventh write returned or because a write raised, each of the seven     *)
(* destinations has been attempted exactly once for the event; a call that *)
(* raised was issued once, did not return, and is not issued again.        *)
C12_EachDestinationOnce ==
    /\ [](\A t \in AllTables :
            /\ attempted[t] <= Len(events)
            /\ attempted[t] - written[t] \in { 0, 1 })
    /\ []((FanOutsDone \/ (error = "DriverError" /\ events # << >>))
            => \A t \in AllTables : attempted[t] = Len(events))
    /\ []((error = "DriverError" /\ events # << >>) =>
            written[WriteOrder[w + 1]] = attempted[WriteOrder[w + 1]] - 1)
    /\ [][ /\ \A t \in AllTables : attempted'[t] \in { attempted[t],
                                                      attempted[t] + 1 }
           /\ error = "DriverError" => attempted' = attempted ]_vars

(* C13: a refresh cycle of the dashboard in which a query raises or finds  *)
(* no rows goes on to the sleep; the sleep lasts POLL_INTERVAL and is      *)
(* followed by a rerun; once the dashboard polls, it is never halted; and  *)
(* every refresh cycle is followed by the next one: a dashboard that was   *)
(* not halted before its first cycle goes through every one of its reruns. *)
C13_PollingContinues ==
    /\ [][ dash_pc = "Query" => dash_pc' \in { "Query", "Sleep" } ]_vars
    /\ [][ (dash_pc = "Sleep" /\ dash_pc' # "Sleep")
             => /\ dash_pc' = "Top"
                /\ dash_sleep' = POLL_INTERVAL
                /\ reruns' = reruns + 1 ]_vars
    /\ [](reruns > 0 => dash_pc # "Halted")
    /\ <>(reruns = MaxReruns \/ dash_pc = "Halted")

C13_Witness ==
    /\ dash_pc = "Sleep"
    /\ dash_error
    /\ reruns >= 1
    /\ reachable = {}
    /\ exists = {}

(* the place of each phase in the order of the claim; "Dead" is the end    *)
(* of the process by exit(1) or by an uncaught exception                   *)
PhaseRank ==
    CASE Phase = "Connecting" -> 1
      [] Phase = "Provisioned" -> 2
      [] Phase = "Loading" -> 3
      [] Phase = "Streaming" -> 4
      [] Phase = "Stopped" -> 5
      [] Phase = "Dead" -> 6

(* C14: every step keeps the phase, moves to the next phase of the order   *)
(* Connecting, Provisioned, data load, Streaming, Stopped, or ends the     *)
(* process; a destination write is issued only in Streaming, with the      *)
(* connection open, the seven tables present and a working set loaded;     *)
(* Streaming starts with all tables empty, and in Streaming every row and  *)
(* every counter key comes from an event of this run.                      *)
C14_PhasesInOrder ==
    /\ [][ /\ PhaseRank' >= PhaseRank
           /\ Phase' \notin { Phase, "Dead" } => PhaseRank' = PhaseRank + 1
         ]_vars
    /\ [][ attempted' # attempted
             => /\ Phase = "Streaming"
                /\ session = "open"
                /\ exists = AllTables
                /\ all_transactions # << >> ]_vars
    /\ [][ (Phase # "Streaming" /\ Phase' = "Streaming")
             => /\ exists' = AllTables
                /\ logs' = EmptyLogs
                /\ counters' = EmptyCounters ]_vars
    /\ [](Phase \in { "Streaming", "Stopped" } =>
            /\ \A t \in LogTables : \A r \in logs[t] :
                 \E n \in 1..Len(events) : r = LogRow(t, events[n])
            /\ \A t \in CounterTables : \A key \in DOMAIN counters[t] :
                 /\ key \in EventKeys(t)
                 /\ counters[t][key].transaction_count
                        <= Cardinality(EventsWithKey(t, key)))

C14_Witness ==
    /\ pc = "Stopped"
    /\ retry_count >= 1
    /\ transaction_count >= 1
    /\ Len(events) = 2
    /\ \A t \in LogTables : logs[t] # {}

RECURSIVE SumOver(_, _)
SumOver(f, S) ==
    IF S = {} THEN 0
    ELSE LET t == CHOOSE x \in S : TRUE IN f[t] + SumOver(f, S \ { t })

(* the destination writes performed in the run: the statements the        *)
(* destination carried out, and the calls that returned                    *)
TotalApplied == SumOver(applied, AllTables)
TotalWritten == SumOver(written, AllTables)

(* C15: after an interrupt in Streaming the writes performed number at     *)
(* least 7 x transaction_count and at most 7 x transaction_count + 7: they *)
(* are the writes of the completed events, the writes of the latest event  *)
(* that returned, and the write in flight if the destination carried it    *)
(* out; a summary that is printed shows 7 x transaction_count; no step of  *)
(* the handler removes or lowers anything in any table.                    *)
C15_WritesWithinOneFanOut ==
    /\ []((pc \in HandlerPcs \cup { "Stopped" }
             \/ summary_writes # NoSummary) =>
            /\ summary_writes \in { NoSummary, NUM_TABLES * transaction_count }
            /\ pc \in { "Shutdown", "Stopped" } => summary_writes # NoSummary
            /\ TotalApplied >= NUM_TABLES * transaction_count
            /\ TotalApplied <= NUM_TABLES * transaction_count + NUM_TABLES
            /\ events # << >> =>
                 /\ TotalWritten = NUM_TABLES * (Len(events) - 1) + w
                 /\ TotalApplied - TotalWritten \in { 0, 1 })
    /\ [][ (pc' \in HandlerPcs \cup { "Stopped" } \/ pc \in HandlerPcs) =>
             /\ exists' = exists
             /\ \A t \in LogTables : logs[t] \subseteq logs'[t]
             /\ \A t \in CounterTables : \A key \in DOMAIN counters[t] :
                  /\ key \in DOMAIN counters'[t]
                  /\ counters'[t][key].total_amount >=
                         counters[t][key].total_amount
                  /\ counters'[t][key].transaction_count >=
                         counters[t][key].transaction_count
             /\ \A t \in AllTables : /\ applied'[t] >= applied[t]
                                      /\ written'[t] = written[t]
             /\ transaction_count' = transaction_count ]_vars

C15_Witness ==
    /\ pc = "Stopped"
    /\ transaction_count = 1
    /\ Len(events) = 2
    /\ w = 3
    /\ TotalWritten = 10
    /\ TotalApplied = 11
    /\ applied["spending_by_category"] = 2
    /\ Cardinality({ r.transaction_id : r \in logs["hourly_transactions"] }) = 2

(* the order of the claim: user log, category log, hourly log, category    *)
(* counter, user-category counter, merchant counter, payment counter       *)
ClaimedOrder ==
    << "transactions_by_user", "transactions_by_category",
       "hourly_transactions", "spending_by_category",
       "spending_by_user_category", "merchant_statistics",
       "payment_method_stats" >>

(* C16: a write is issued, carried out and returns only as the write to    *)
(* the next destination of the claimed order, one call at a time;          *)
(* transaction_count changes only by one, after the seventh write of the   *)
(* event returned; the numbers of events written to the destinations do    *)
(* not increase along the order and differ by at most one, and             *)
(* transaction_count exceeds none of them.                                 *)
C16_SequentialFanOut ==
    /\ [][ \A k \in 1..NUM_TABLES :
             LET t == ClaimedOrder[k] IN
             /\ attempted'[t] # attempted[t]
                  => /\ k = w + 1
                     /\ attempted'[t] = attempted[t] + 1
                     /\ attempted[t] = written[t]
             /\ applied'[t] # applied[t]
                  => /\ k = w + 1
                     /\ applied'[t] = applied[t] + 1
                     /\ attempted[t] = applied'[t]
             /\ written'[t] # written[t]
                  => /\ k = w + 1
                     /\ w' = k
                     /\ written'[t] = written[t] + 1
                     /\ applied[t] = written'[t]
         ]_vars
    /\ [][ transaction_count' # transaction_count
             => /\ transaction_count' = transaction_count + 1
                /\ w = NUM_TABLES
                /\ written[ClaimedOrder[NUM_TABLES]] = transaction_count + 1
         ]_vars
    /\ [](\A a, b \in 1..NUM_TABLES :
            a < b => /\ applied[ClaimedOrder[a]] >= applied[ClaimedOrder[b]]
                     /\ written[ClaimedOrder[a]] >= written[ClaimedOrder[b]])
    /\ [](\A s, t \in AllTables : /\ applied[s] - applied[t] <= 1
                                   /\ written[s] - written[t] <= 1)
    /\ [](\A t \in AllTables : /\ transaction_count <= written[t]
                                /\ written[t] <= applied[t])

C16_Witness ==
    /\ pc = "Applied"
    /\ Len(events) = 2
    /\ transaction_count = 1
    /\ w = 4
    /\ written[ClaimedOrder[4]] = 2
    /\ applied[ClaimedOrder[5]] = 2
    /\ written[ClaimedOrder[5]] = 1
    /\ applied[ClaimedOrder[6]] = 1

====
